---------------------------- MODULE Spec2Model ----------------------------
(***************************************************************************)
(* A model of the storage driver contract of docker-registry               *)
(* (docker_registry/core/driver.py) and of the two toy HTTP stores that    *)
(* sit next to it (registry.py, streaming-storage.py).                     *)
(*                                                                         *)
(* Python str values are modelled as sequences of one-character strings,   *)
(* byte strings and unicode text as sequences of integers (bytes, code     *)
(* points).  The module holds several specifications over one set of       *)
(* variables; each specification moves its own variables and leaves the    *)
(* others at their initial value.                                          *)
(***************************************************************************)
EXTENDS Integers, Sequences, FiniteSets, Bags, TLC

VARIABLES
    inA, inB, outA, outB,       \* SpecEnc: two raw inputs of check and their results
    call, ret,                  \* SpecPath: one call of a path builder and what it returns
    overrides, store, last,     \* SpecDriver: a FileStorage object, its backend's content, the last call
    STORAGE, areq, aresp,       \* SpecAtomic: registry.py's dictionary, the POSTs in flight, the last response
    lastBody,                   \*   (history) per key, the body of the POST that stored last
    files, sreq, sresp,         \* SpecStream: the files under /tmp, the requests in flight, the last response
    lastPosted,                 \*   (history) per key, the last POST to open its file
    installed, scheme, fres     \* SpecFetch: the driver modules, their Storage.scheme, the last fetch

vars == << inA, inB, outA, outB, call, ret, overrides, store, last,
           STORAGE, areq, aresp, lastBody, files, sreq, sresp, lastPosted,
           installed, scheme, fres >>

encVars    == << inA, inB, outA, outB >>
pathVars   == << call, ret >>
driverVars == << overrides, store, last >>
atomicVars == << STORAGE, areq, aresp, lastBody >>
streamVars == << files, sreq, sresp, lastPosted >>
fetchVars  == << installed, scheme, fres >>

-----------------------------------------------------------------------------
(* Bounds *)

MaxLen == 2        \* longest raw string handed to check directly
MaxSegLen == 1     \* longest namespace / repository / image / tag drawn for a path builder
MaxAReq == 2       \* POST requests in flight at once on the atomic store
MaxSReq == 2       \* requests in flight at once on the streaming store

-----------------------------------------------------------------------------
(* Sequences *)

RECURSIVE Flatten(_)
Flatten(ss) == IF ss = << >> THEN << >> ELSE Head(ss) \o Flatten(Tail(ss))

SeqsUpTo(S, n) == UNION { [1..k -> S] : k \in 0..n }

IsPrefix(p, s) == Len(p) <= Len(s) /\ SubSeq(s, 1, Len(p)) = p
IsStrictPrefix(p, s) == IsPrefix(p, s) /\ Len(p) < Len(s)

Count(c, s) == Cardinality({ i \in 1..Len(s) : s[i] = c })

\* s.split(c): the pieces of s between the occurrences of c
RECURSIVE SplitOn(_, _)
SplitOn(c, s) ==
    IF \A i \in 1..Len(s) : s[i] # c THEN << s >>
    ELSE LET i == CHOOSE j \in 1..Len(s) : s[j] = c /\ \A k \in 1..(j-1) : s[k] # c
         IN  << SubSeq(s, 1, i-1) >> \o SplitOn(c, SubSeq(s, i+1, Len(s)))

-----------------------------------------------------------------------------
(* Python values handed to check and to the path builders: a str or None *)

PyStr(s) == [t |-> "str", s |-> s]
PyNone == [t |-> "none", s |-> << >>]

\* str(value)
str(value) == IF value.t = "none" THEN << "N", "o", "n", "e" >> ELSE value.s

\* bool(value): None and the empty string are false
Truthy(value) == value.t = "str" /\ value.s # << >>

\* The printable ASCII characters, from code 32 (space) to 126 (~); the grave
\* accent (96) is written "GRAVE"
AsciiTable ==
    << " ", "!", "\"", "#", "$", "%", "&", "'", "(", ")", "*", "+", ",", "-", ".", "/",
       "0", "1", "2", "3", "4", "5", "6", "7", "8", "9", ":", ";", "<", "=", ">", "?",
       "@", "A", "B", "C", "D", "E", "F", "G", "H", "I", "J", "K", "L", "M", "N", "O",
       "P", "Q", "R", "S", "T", "U", "V", "W", "X", "Y", "Z", "[", "\\", "]", "^", "_",
       "GRAVE", "a", "b", "c", "d", "e", "f", "g", "h", "i", "j", "k", "l", "m", "n", "o",
       "p", "q", "r", "s", "t", "u", "v", "w", "x", "y", "z", "{", "|", "}", "~" >>

ord(c) == 31 + (CHOOSE i \in 1..Len(AsciiTable) : AsciiTable[i] = c)
chr(n) == AsciiTable[n - 31]

HexDigits == << "0", "1", "2", "3", "4", "5", "6", "7", "8", "9",
                "A", "B", "C", "D", "E", "F" >>

\* '%%%02X' % ord(c)
PercentHex(c) == << "%", HexDigits[(ord(c) \div 16) + 1], HexDigits[(ord(c) % 16) + 1] >>

\* urllib.always_safe: the letters, the digits and "_.-"
always_safe ==
    { AsciiTable[i] : i \in 34..59 } \cup { AsciiTable[i] : i \in 66..91 }
        \cup { AsciiTable[i] : i \in 17..26 } \cup { "_", ".", "-" }

\* urllib.quote(s, safe): every character outside always_safe and safe is %XX
quote(s, safe) ==
    Flatten([i \in 1..Len(s) |->
                IF s[i] \in always_safe \cup safe THEN << s[i] >> ELSE PercentHex(s[i])])

\* urllib.quote_plus(s): quote with the space kept, then every space to "+"
quote_plus(s) ==
    IF \E i \in 1..Len(s) : s[i] = " "
    THEN LET q == quote(s, {" "})
         IN  [i \in 1..Len(q) |-> IF q[i] = " " THEN "+" ELSE q[i]]
    ELSE quote(s, {})

\* check as it would be without the two tests for "." and ".."
check_unescaped(value) == quote_plus(str(value))

\* check(value), lines 44-50
check(value) ==
    LET v0 == str(value)
        v1 == IF v0 = << ".", "." >> THEN << "%", "2", "E", "%", "2", "E" >> ELSE v0
        v2 == IF v1 = << "." >> THEN << "%", "2", "E" >> ELSE v1
    IN  quote_plus(v2)

-----------------------------------------------------------------------------
(* A call: the positional arguments after self, and the keyword arguments *)

NoKwargs == [k \in {} |-> PyNone]
Positional(args) == [args |-> args, kwargs |-> NoKwargs]
Keyword(kwargs) == [args |-> << >>, kwargs |-> kwargs]

\* filter_args' wrapper: every positional argument after self and every keyword
\* argument is replaced by check of it, and the wrapped function is called
filter_args(c) ==
    [args   |-> [i \in 1..Len(c.args) |-> PyStr(check(c.args[i]))],
     kwargs |-> [k \in DOMAIN c.kwargs |-> PyStr(check(c.kwargs[k]))]]

\* Python's binding of the i-th parameter, named name, with a default
Param(c, i, name, default) ==
    IF i <= Len(c.args) THEN c.args[i]
    ELSE IF name \in DOMAIN c.kwargs THEN c.kwargs[name]
    ELSE default

repositories == << "r", "e", "p", "o", "s", "i", "t", "o", "r", "i", "e", "s" >>
images == << "i", "m", "a", "g", "e", "s" >>
Slash == << "/" >>

\* '{0}/{1}/{2}'.format(a, b, c) and '{0}/{1}'.format(a, b) on str arguments
Format3(a, b, c) == a \o Slash \o b \o Slash \o c
Format2(a, b) == a \o Slash \o b

\* FileStorage._repository_path: the class's second definition (lines 229-232)
\* replaces the first (188-190), so the name is bound to the decorated one
_repository_path(c) ==
    LET f == filter_args(c)
        namespace == Param(f, 1, "namespace", PyNone)
        repository == Param(f, 2, "repository", PyNone)
    IN  Format3(repositories, str(namespace), str(repository))

\* The call self._repository_path(namespace=namespace, repository=repository)
RepositoryPathOf(namespace, repository) ==
    _repository_path(Keyword([namespace |-> namespace, repository |-> repository]))

_images_list_path(c) ==
    LET f == filter_args(c)
        repository_path == RepositoryPathOf(Param(f, 1, "namespace", PyNone),
                                            Param(f, 2, "repository", PyNone))
    IN  Format2(repository_path, << "_", "i", "m", "a", "g", "e", "s", "_", "l", "i", "s", "t" >>)

ImagePath(c, leaf) ==
    LET f == filter_args(c)
        image == Param(f, 1, "image", PyNone)
    IN  Format3(images, str(image), leaf)

_image_json_path(c) == ImagePath(c, << "j", "s", "o", "n" >>)
_image_mark_path(c) == ImagePath(c, << "_", "i", "n", "p", "r", "o", "g", "r", "e", "s", "s" >>)
_image_checksum_path(c) == ImagePath(c, << "_", "c", "h", "e", "c", "k", "s", "u", "m" >>)
_image_layer_path(c) == ImagePath(c, << "l", "a", "y", "e", "r" >>)
_image_ancestry_path(c) == ImagePath(c, << "a", "n", "c", "e", "s", "t", "r", "y" >>)
_image_files_path(c) == ImagePath(c, << "_", "f", "i", "l", "e", "s" >>)
_image_diff_path(c) == ImagePath(c, << "_", "d", "i", "f", "f" >>)

tag_path(c) ==
    LET f == filter_args(c)
        tagname == Param(f, 3, "tagname", PyNone)
        repository_path == RepositoryPathOf(Param(f, 1, "namespace", PyNone),
                                            Param(f, 2, "repository", PyNone))
    IN  IF ~Truthy(tagname) THEN repository_path
        ELSE repository_path \o << "/", "t", "a", "g", "_" >> \o str(tagname)

repository_json_path(c) ==
    LET f == filter_args(c)
        repository_path == RepositoryPathOf(Param(f, 1, "namespace", PyNone),
                                            Param(f, 2, "repository", PyNone))
    IN  Format2(repository_path, << "j", "s", "o", "n" >>)

repository_tag_json_path(c) ==
    LET f == filter_args(c)
        tag == Param(f, 3, "tag", PyNone)
        repository_path == RepositoryPathOf(Param(f, 1, "namespace", PyNone),
                                            Param(f, 2, "repository", PyNone))
    IN  repository_path \o << "/", "t", "a", "g" >> \o str(tag) \o << "_", "j", "s", "o", "n" >>

index_images_path(c) ==
    LET f == filter_args(c)
        repository_path == RepositoryPathOf(Param(f, 1, "namespace", PyNone),
                                            Param(f, 2, "repository", PyNone))
    IN  Format2(repository_path, << "_", "i", "n", "d", "e", "x", "_", "i", "m", "a", "g", "e", "s" >>)

private_flag_path(c) ==
    LET f == filter_args(c)
        repository_path == RepositoryPathOf(Param(f, 1, "namespace", PyNone),
                                            Param(f, 2, "repository", PyNone))
    IN  Format2(repository_path, << "_", "p", "r", "i", "v", "a", "t", "e" >>)

-----------------------------------------------------------------------------
(* The inputs drawn for check and for the path builders *)

Alphabet == { "a", "2", "E", ".", "%", "+", " ", "/" }

\* Inputs that already look like escape tokens
EscapeLike == { << "%", "2", "E" >>, << "%", "2", "E", "%", "2", "E" >>,
                << "%", "2", "5", "2", "E" >> }

CheckInputs == { PyStr(s) : s \in SeqsUpTo(Alphabet, MaxLen) \cup EscapeLike } \cup { PyNone }

latest == << "l", "a", "t", "e", "s", "t" >>

SegStrings == SeqsUpTo(Alphabet, MaxSegLen)
                 \cup { << ".", "." >>, << "a", " ", "b" >>, << "a", "b", "c", "1", "2", "3" >> }
SegValues == { PyStr(s) : s \in SegStrings }

TagStrings == { << >>, latest, << "v", "1" >>, << "." >>, << ".", "." >>, << "a", "/", "b" >> }
TagValues == { PyStr(s) : s \in TagStrings }

RepoBuilders == { "_repository_path", "_images_list_path", "repository_json_path",
                  "index_images_path", "private_flag_path" }
ImageBuilders == { "_image_json_path", "_image_mark_path", "_image_checksum_path",
                   "_image_layer_path", "_image_ancestry_path", "_image_files_path",
                   "_image_diff_path" }

\* A call with its arguments passed by position or by keyword
ImageCall(kw, i) == IF kw THEN Keyword([image |-> i]) ELSE Positional(<< i >>)
RepoCall(kw, n, r) ==
    IF kw THEN Keyword([namespace |-> n, repository |-> r]) ELSE Positional(<< n, r >>)
TagCall(kw, name, n, r, g) ==
    IF kw THEN Keyword((name :> g) @@ [namespace |-> n, repository |-> r])
    ELSE Positional(<< n, r, g >>)

NotYet == [done |-> FALSE, s |-> << >>]
Returned(s) == [done |-> TRUE, s |-> s]

-----------------------------------------------------------------------------
(* Initial values of each group of variables *)

EncIdle == inA = PyNone /\ inB = PyNone /\ outA = NotYet /\ outB = NotYet
PathIdle == call = [fn |-> "none", c |-> Positional(<< >>)] /\ ret = NotYet

-----------------------------------------------------------------------------
(* SpecEnc: check applied to two raw inputs *)

EncInit == inA \in CheckInputs /\ inB \in CheckInputs /\ outA = NotYet /\ outB = NotYet

CheckA ==
    /\ ~outA.done /\ outA' = Returned(check(inA)) /\ UNCHANGED << inA, inB, outB >>
    /\ UNCHANGED << pathVars, driverVars, atomicVars, streamVars, fetchVars >>
CheckB ==
    /\ ~outB.done /\ outB' = Returned(check(inB)) /\ UNCHANGED << inA, inB, outA >>
    /\ UNCHANGED << pathVars, driverVars, atomicVars, streamVars, fetchVars >>

EncNext == CheckA \/ CheckB

-----------------------------------------------------------------------------
(* SpecPath: one call of check or of a path builder *)

PathInit ==
    /\ ret = NotYet
    /\ \/ \E v \in CheckInputs : call = [fn |-> "check", c |-> Positional(<< v >>)]
       \/ \E fn \in ImageBuilders, kw \in BOOLEAN, i \in SegValues :
              call = [fn |-> fn, c |-> ImageCall(kw, i)]
       \/ \E fn \in RepoBuilders \cup { "tag_path" }, kw \in BOOLEAN,
             n \in SegValues, r \in SegValues :
              call = [fn |-> fn, c |-> RepoCall(kw, n, r)]
       \/ \E kw \in BOOLEAN, n \in SegValues, r \in SegValues, g \in TagValues \cup { PyNone } :
              call = [fn |-> "tag_path", c |-> TagCall(kw, "tagname", n, r, g)]
       \/ \E kw \in BOOLEAN, n \in SegValues, r \in SegValues, g \in TagValues :
              call = [fn |-> "repository_tag_json_path", c |-> TagCall(kw, "tag", n, r, g)]

Returns(fn, s) ==
    /\ call.fn = fn /\ ~ret.done /\ ret' = Returned(s) /\ UNCHANGED call
    /\ UNCHANGED << encVars, driverVars, atomicVars, streamVars, fetchVars >>

Call_check == Returns("check", check(call.c.args[1]))
Call__repository_path == Returns("_repository_path", _repository_path(call.c))
Call__images_list_path == Returns("_images_list_path", _images_list_path(call.c))
Call__image_json_path == Returns("_image_json_path", _image_json_path(call.c))
Call__image_mark_path == Returns("_image_mark_path", _image_mark_path(call.c))
Call__image_checksum_path == Returns("_image_checksum_path", _image_checksum_path(call.c))
Call__image_layer_path == Returns("_image_layer_path", _image_layer_path(call.c))
Call__image_ancestry_path == Returns("_image_ancestry_path", _image_ancestry_path(call.c))
Call__image_files_path == Returns("_image_files_path", _image_files_path(call.c))
Call__image_diff_path == Returns("_image_diff_path", _image_diff_path(call.c))
Call_tag_path == Returns("tag_path", tag_path(call.c))
Call_repository_json_path == Returns("repository_json_path", repository_json_path(call.c))
Call_repository_tag_json_path ==
    Returns("repository_tag_json_path", repository_tag_json_path(call.c))
Call_index_images_path == Returns("index_images_path", index_images_path(call.c))
Call_private_flag_path == Returns("private_flag_path", private_flag_path(call.c))

PathNext ==
    \/ Call_check
    \/ Call__repository_path
    \/ Call__images_list_path
    \/ Call__image_json_path
    \/ Call__image_mark_path
    \/ Call__image_checksum_path
    \/ Call__image_layer_path
    \/ Call__image_ancestry_path
    \/ Call__image_files_path
    \/ Call__image_diff_path
    \/ Call_tag_path
    \/ Call_repository_json_path
    \/ Call_repository_tag_json_path
    \/ Call_index_images_path
    \/ Call_private_flag_path

-----------------------------------------------------------------------------
(* Claims about check and the path builders *)

\* C2 (as claimed): check is injective on strings: two raw strings with the same
\* encoding are the same string, the inputs "." and ".." and inputs that already
\* look like escape tokens included.
C2_CheckInjective ==
    (outA.done /\ outB.done /\ inA.t = "str" /\ inB.t = "str" /\ outA.s = outB.s)
        => inA = inB

\* The path-format template of a builder with every caller-supplied segment
\* passed through check exactly once
Seg(c, i, name) == check(Param(c, i, name, PyNone))
RootOnce(c) == Format3(repositories, Seg(c, 1, "namespace"), Seg(c, 2, "repository"))
TemplateOnce(fn, c) ==
    CASE fn = "_repository_path" -> RootOnce(c)
      [] fn = "tag_path" -> RootOnce(c) \o << "/", "t", "a", "g", "_" >> \o Seg(c, 3, "tagname")
      [] fn = "repository_tag_json_path" ->
            RootOnce(c) \o << "/", "t", "a", "g" >> \o Seg(c, 3, "tag") \o << "_", "j", "s", "o", "n" >>
      [] fn = "repository_json_path" -> Format2(RootOnce(c), << "j", "s", "o", "n" >>)
      [] fn = "_images_list_path" ->
            Format2(RootOnce(c), << "_", "i", "m", "a", "g", "e", "s", "_", "l", "i", "s", "t" >>)
      [] fn = "index_images_path" ->
            Format2(RootOnce(c), << "_", "i", "n", "d", "e", "x", "_", "i", "m", "a", "g", "e", "s" >>)
      [] fn = "private_flag_path" ->
            Format2(RootOnce(c), << "_", "p", "r", "i", "v", "a", "t", "e" >>)
      [] fn = "_image_json_path" -> Format3(images, Seg(c, 1, "image"), << "j", "s", "o", "n" >>)
      [] fn = "_image_mark_path" ->
            Format3(images, Seg(c, 1, "image"), << "_", "i", "n", "p", "r", "o", "g", "r", "e", "s", "s" >>)
      [] fn = "_image_checksum_path" ->
            Format3(images, Seg(c, 1, "image"), << "_", "c", "h", "e", "c", "k", "s", "u", "m" >>)
      [] fn = "_image_layer_path" -> Format3(images, Seg(c, 1, "image"), << "l", "a", "y", "e", "r" >>)
      [] fn = "_image_ancestry_path" ->
            Format3(images, Seg(c, 1, "image"), << "a", "n", "c", "e", "s", "t", "r", "y" >>)
      [] fn = "_image_files_path" ->
            Format3(images, Seg(c, 1, "image"), << "_", "f", "i", "l", "e", "s" >>)
      [] fn = "_image_diff_path" -> Format3(images, Seg(c, 1, "image"), << "_", "d", "i", "f", "f" >>)

\* The tag name of a tag_path call: Omitted when the call gives none
Omitted == [t |-> "omitted", s |-> << >>]
TagGiven(c) == Param(c, 3, "tagname", Omitted)

\* C3 (as claimed): every path builder called with a tag name, or taking none,
\* returns its template with each caller-supplied segment passed through check
\* exactly once, for positional and for keyword arguments.
C3_BuildersEncodeOnce ==
    (ret.done /\ call.fn # "check"
        /\ (call.fn = "tag_path" => TagGiven(call.c).t = "str"))
        => ret.s = TemplateOnce(call.fn, call.c)

\* The same call of tag_path with the tag name "latest"
WithLatest(c) ==
    Positional(<< Param(c, 1, "namespace", PyNone), Param(c, 2, "repository", PyNone),
                  PyStr(latest) >>)

\* C4 (as claimed): tag_path with the tag name omitted, or None passed for it,
\* returns the repository root: the path of the tag "latest" without its last
\* segment, and so a strict prefix of it.
C4_NoTagIsRoot ==
    (ret.done /\ call.fn = "tag_path" /\ TagGiven(call.c).t \in { "omitted", "none" })
        => /\ IsStrictPrefix(ret.s, tag_path(WithLatest(call.c)))
           /\ ret.s \o << "/", "t", "a", "g", "_" >> \o latest = tag_path(WithLatest(call.c))

\* The number of segments of the template a call builds its path from
TemplateSegments(fn, c) ==
    IF fn \in ImageBuilders \cup { "_repository_path" } THEN 3
    ELSE IF fn = "tag_path" /\ (TagGiven(c).t = "omitted" \/ str(TagGiven(c)) = << >>) THEN 3
    ELSE 4

DotSegments == { << "." >>, << ".", "." >> }

\* C5: check never returns "." or "..", and its result holds no "/"; so a path
\* returned by a builder has exactly as many slash-separated segments as its
\* template, and none of them is "." or "..".
C5_TraversalSafe ==
    ret.done =>
        IF call.fn = "check"
        THEN ret.s \notin DotSegments /\ Count("/", ret.s) = 0
        ELSE LET segs == SplitOn("/", ret.s)
             IN  /\ Len(segs) = TemplateSegments(call.fn, call.c)
                 /\ \A i \in 1..Len(segs) : segs[i] \notin DotSegments

\* A builder has returned a path for a namespace ".." and a tag name holding "/"
C5_Witness ==
    /\ ret.done /\ call.fn = "tag_path"
    /\ Param(call.c, 1, "namespace", PyNone) = PyStr(<< ".", "." >>)
    /\ TagGiven(call.c) = PyStr(<< "a", "/", "b" >>)

-----------------------------------------------------------------------------
(* Text and bytes: unicode text is a sequence of code points, a byte string a *)
(* sequence of bytes                                                          *)

\* The code points of a str of ASCII characters
Cp(s) == [i \in 1..Len(s) |-> ord(s[i])]

\* text.encode('utf8'), for code points below 65536
EncodeCodePoint(cp) ==
    IF cp < 128 THEN << cp >>
    ELSE IF cp < 2048 THEN << 192 + (cp \div 64), 128 + (cp % 64) >>
    ELSE << 224 + (cp \div 4096), 128 + ((cp \div 64) % 64), 128 + (cp % 64) >>

encode_utf8(text) == Flatten([i \in 1..Len(text) |-> EncodeCodePoint(text[i])])

IsContinuation(b) == b \in 128..191

\* bytes.decode('utf8'): ok is FALSE where Python raises UnicodeDecodeError
RECURSIVE DecodeFrom(_, _, _)
DecodeFrom(b, i, acc) ==
    IF i > Len(b) THEN [ok |-> TRUE, text |-> acc]
    ELSE IF b[i] < 128 THEN DecodeFrom(b, i + 1, Append(acc, b[i]))
    ELSE IF b[i] \in 194..223 /\ i + 1 <= Len(b) /\ IsContinuation(b[i+1])
         THEN DecodeFrom(b, i + 2, Append(acc, (b[i] - 192) * 64 + (b[i+1] - 128)))
    ELSE IF b[i] \in 224..239 /\ i + 2 <= Len(b) /\ IsContinuation(b[i+1])
                /\ IsContinuation(b[i+2])
                /\ (b[i] - 224) * 4096 + (b[i+1] - 128) * 64 + (b[i+2] - 128) >= 2048
         THEN DecodeFrom(b, i + 3,
                  Append(acc, (b[i] - 224) * 4096 + (b[i+1] - 128) * 64 + (b[i+2] - 128)))
    ELSE [ok |-> FALSE, text |-> << >>]

decode_utf8(b) == DecodeFrom(b, 1, << >>)

-----------------------------------------------------------------------------
(* JSON values and the json module's dumps and loads *)

JNull == << "null" >>
JBool(b) == << "bool", b >>
JInt(n) == << "int", n >>
JStr(s) == << "str", s >>
JList(l) == << "list", l >>
\* a dict, as the sequence of its (key, value) pairs
JDict(m) == << "dict", m >>

RECURSIVE DecimalDigits(_)
DecimalDigits(n) ==
    IF n < 10 THEN << 48 + n >> ELSE Append(DecimalDigits(n \div 10), 48 + (n % 10))

LowerHex == Cp(<< "0", "1", "2", "3", "4", "5", "6", "7", "8", "9",
                  "a", "b", "c", "d", "e", "f" >>)

\* json.encoder's ESCAPE_ASCII: the quote, the backslash and everything outside
\* the range from space to ~ are escaped
EscapeAscii(cp) ==
    IF cp = 34 THEN Cp(<< "\\", "\"" >>)
    ELSE IF cp = 92 THEN Cp(<< "\\", "\\" >>)
    ELSE IF cp = 10 THEN Cp(<< "\\", "n" >>)
    ELSE IF cp < 32 \/ cp > 126
         THEN Cp(<< "\\", "u" >>) \o
              << LowerHex[((cp \div 4096) % 16) + 1], LowerHex[((cp \div 256) % 16) + 1],
                 LowerHex[((cp \div 16) % 16) + 1], LowerHex[(cp % 16) + 1] >>
    ELSE << cp >>

DumpString(s) == << 34 >> \o Flatten([i \in 1..Len(s) |-> EscapeAscii(s[i])]) \o << 34 >>

\* ', '.join(parts)
RECURSIVE JoinComma(_)
JoinComma(parts) ==
    IF parts = << >> THEN << >>
    ELSE IF Len(parts) = 1 THEN parts[1]
    ELSE parts[1] \o << 44, 32 >> \o JoinComma(Tail(parts))

\* json.dumps(content), with its default separators and ensure_ascii
RECURSIVE json_dumps(_)
json_dumps(v) ==
    CASE v[1] = "null" -> Cp(<< "n", "u", "l", "l" >>)
      [] v[1] = "bool" -> IF v[2] THEN Cp(<< "t", "r", "u", "e" >>)
                          ELSE Cp(<< "f", "a", "l", "s", "e" >>)
      [] v[1] = "int" -> IF v[2] < 0 THEN << 45 >> \o DecimalDigits(-v[2])
                         ELSE DecimalDigits(v[2])
      [] v[1] = "str" -> DumpString(v[2])
      [] v[1] = "list" ->
            << 91 >> \o JoinComma([i \in 1..Len(v[2]) |-> json_dumps(v[2][i])]) \o << 93 >>
      [] v[1] = "dict" ->
            << 123 >> \o JoinComma([i \in 1..Len(v[2]) |->
                            DumpString(v[2][i][1]) \o << 58, 32 >> \o json_dumps(v[2][i][2])])
                      \o << 125 >>

\* The scanner: a result is the value and the index after it, or a failure
ParseFail == [ok |-> FALSE, v |-> JNull, next |-> 0]
ParseOk(v, n) == [ok |-> TRUE, v |-> v, next |-> n]

At(t, i) == IF i >= 1 /\ i <= Len(t) THEN t[i] ELSE -1

RECURSIVE SkipWs(_, _)
SkipWs(t, i) == IF At(t, i) \in { 32, 9, 10, 13 } THEN SkipWs(t, i + 1) ELSE i

StartsWith(t, i, lit) == i + Len(lit) - 1 <= Len(t) /\ SubSeq(t, i, i + Len(lit) - 1) = lit

IsDigit(c) == c \in 48..57
IsHex(c) == c \in 48..57 \/ c \in 97..102 \/ c \in 65..70
HexValue(c) == IF c \in 48..57 THEN c - 48 ELSE IF c \in 97..102 THEN c - 87 ELSE c - 55

RECURSIVE ParseDigits(_, _, _)
ParseDigits(t, i, acc) ==
    IF IsDigit(At(t, i)) THEN ParseDigits(t, i + 1, acc * 10 + (At(t, i) - 48))
    ELSE [v |-> acc, next |-> i]

\* An integer; a fraction or an exponent would make a float, which no value
\* written here has
ParseNumber(t, i) ==
    LET neg == At(t, i) = 45
        j == IF neg THEN i + 1 ELSE i
    IN  IF ~IsDigit(At(t, j)) THEN ParseFail
        ELSE LET d == ParseDigits(t, j, 0)
             IN  IF At(t, d.next) \in { 46, 101, 69 } THEN ParseFail
                 ELSE ParseOk(JInt(IF neg THEN 0 - d.v ELSE d.v), d.next)

\* The characters of a string, from the index after its opening quote
RECURSIVE ParseChars(_, _, _)
ParseChars(t, i, acc) ==
    LET c == At(t, i)
        e == At(t, i + 1)
    IN  IF c = -1 \/ (c >= 0 /\ c < 32) THEN ParseFail
        ELSE IF c = 34 THEN ParseOk(acc, i + 1)
        ELSE IF c # 92 THEN ParseChars(t, i + 1, Append(acc, c))
        ELSE IF e \in { 34, 92, 47 } THEN ParseChars(t, i + 2, Append(acc, e))
        ELSE IF e = 110 THEN ParseChars(t, i + 2, Append(acc, 10))
        ELSE IF e = 116 THEN ParseChars(t, i + 2, Append(acc, 9))
        ELSE IF e = 114 THEN ParseChars(t, i + 2, Append(acc, 13))
        ELSE IF e = 117 /\ \A k \in 2..5 : IsHex(At(t, i + k))
             THEN ParseChars(t, i + 6,
                      Append(acc, HexValue(t[i+2]) * 4096 + HexValue(t[i+3]) * 256
                                      + HexValue(t[i+4]) * 16 + HexValue(t[i+5])))
        ELSE ParseFail

RECURSIVE ParseValue(_, _)
RECURSIVE ParseElements(_, _, _)
RECURSIVE ParseMembers(_, _, _)

ParseValue(t, i) ==
    LET c == At(t, i)
    IN  CASE c = 110 -> IF StartsWith(t, i, Cp(<< "n", "u", "l", "l" >>))
                        THEN ParseOk(JNull, i + 4) ELSE ParseFail
          [] c = 116 -> IF StartsWith(t, i, Cp(<< "t", "r", "u", "e" >>))
                        THEN ParseOk(JBool(TRUE), i + 4) ELSE ParseFail
          [] c = 102 -> IF StartsWith(t, i, Cp(<< "f", "a", "l", "s", "e" >>))
                        THEN ParseOk(JBool(FALSE), i + 5) ELSE ParseFail
          [] c = 34 -> LET r == ParseChars(t, i + 1, << >>)
                       IN  IF r.ok THEN ParseOk(JStr(r.v), r.next) ELSE ParseFail
          [] c = 91 -> LET j == SkipWs(t, i + 1)
                       IN  IF At(t, j) = 93 THEN ParseOk(JList(<< >>), j + 1)
                           ELSE ParseElements(t, j, << >>)
          [] c = 123 -> LET j == SkipWs(t, i + 1)
                        IN  IF At(t, j) = 125 THEN ParseOk(JDict(<< >>), j + 1)
                            ELSE ParseMembers(t, j, << >>)
          [] c = 45 \/ IsDigit(c) -> ParseNumber(t, i)
          [] OTHER -> ParseFail

ParseElements(t, i, acc) ==
    LET r == ParseValue(t, i)
        j == SkipWs(t, r.next)
    IN  IF ~r.ok THEN ParseFail
        ELSE IF At(t, j) = 44 THEN ParseElements(t, SkipWs(t, j + 1), Append(acc, r.v))
        ELSE IF At(t, j) = 93 THEN ParseOk(JList(Append(acc, r.v)), j + 1)
        ELSE ParseFail

ParseMembers(t, i, acc) ==
    LET key == IF At(t, i) = 34 THEN ParseChars(t, i + 1, << >>) ELSE ParseFail
        j == SkipWs(t, key.next)
        r == IF key.ok /\ At(t, j) = 58 THEN ParseValue(t, SkipWs(t, j + 1)) ELSE ParseFail
        k == SkipWs(t, r.next)
    IN  IF ~r.ok THEN ParseFail
        ELSE IF At(t, k) = 44
             THEN ParseMembers(t, SkipWs(t, k + 1), Append(acc, << key.v, r.v >>))
        ELSE IF At(t, k) = 125 THEN ParseOk(JDict(Append(acc, << key.v, r.v >>)), k + 1)
        ELSE ParseFail

\* json.loads(text): ok is FALSE where Python raises ValueError
json_loads(t) ==
    LET r == ParseValue(t, SkipWs(t, 1))
    IN  IF r.ok /\ SkipWs(t, r.next) = Len(t) + 1 THEN [ok |-> TRUE, v |-> r.v]
        ELSE [ok |-> FALSE, v |-> JNull]

-----------------------------------------------------------------------------
(* FileStorage: the primitives, and the operations derived from them.  A call *)
(* is evaluated against the set of methods the backend class overrides and    *)
(* the backend's content; it gives an outcome (a returned value or a raised   *)
(* exception), the content afterwards, and the put_content calls it made.     *)

VNone == << "none" >>
VBool(b) == << "bool", b >>
VInt(n) == << "int", n >>
VBytes(b) == << "bytes", b >>
VText(x) == << "text", x >>
VJson(v) == << "json", v >>

Return(v, st, puts) ==
    [out |-> [kind |-> "return", err |-> "", val |-> v], store |-> st, puts |-> puts]
Raise(e, st, puts) ==
    [out |-> [kind |-> "raise", err |-> e, val |-> VNone], store |-> st, puts |-> puts]

AbsentEntry == [present |-> FALSE, data |-> << >>]
Stored(b) == [present |-> TRUE, data |-> b]

\* An in-memory backend, as the contract describes its primitives
Mem_get_content(st, path) ==
    IF st[path].present THEN Return(VBytes(st[path].data), st, << >>)
    ELSE Raise("FileNotFoundError", st, << >>)
Mem_put_content(st, path, content) ==
    Return(VBytes(content), [st EXCEPT ![path] = Stored(content)], << >>)
Mem_remove(st, path) ==
    IF st[path].present THEN Return(VNone, [st EXCEPT ![path] = AbsentEntry], << >>)
    ELSE Raise("FileNotFoundError", st, << >>)
Mem_get_size(st, path) ==
    IF st[path].present THEN Return(VInt(Len(st[path].data)), st, << >>)
    ELSE Raise("FileNotFoundError", st, << >>)
Mem_exists(st, path) == Return(VBool(st[path].present), st, << >>)

\* The methods the in-memory backend class defines
MemOverrides == { "get_content", "put_content", "remove", "get_size", "exists", "_exists" }

\* The primitives of FileStorage (lines 298-350): each raises NotImplementedError
\* unless the backend class overrides it
get_content(ov, st, path) ==
    IF "get_content" \in ov THEN Mem_get_content(st, path)
    ELSE Raise("NotImplementedError", st, << >>)

put_content(ov, st, path, content) ==
    LET made == << [path |-> path, content |-> content] >>
    IN  IF "put_content" \in ov
        THEN [Mem_put_content(st, path, content) EXCEPT !.puts = made]
        ELSE Raise("NotImplementedError", st, made)

stream_read(ov, st, path) == Raise("NotImplementedError", st, << >>)
stream_write(ov, st, path) == Raise("NotImplementedError", st, << >>)
list_directory(ov, st, path) == Raise("NotImplementedError", st, << >>)

_exists(ov, st, path) ==
    IF "_exists" \in ov THEN Mem_exists(st, path)
    ELSE Raise("NotImplementedError", st, << >>)

remove(ov, st, path) ==
    IF "remove" \in ov THEN Mem_remove(st, path)
    ELSE Raise("NotImplementedError", st, << >>)

get_size(ov, st, path) ==
    IF "get_size" \in ov THEN Mem_get_size(st, path)
    ELSE Raise("NotImplementedError", st, << >>)

\* self.exists(...): FileStorage and Storage define no method of that name, so
\* the attribute lookup fails unless the backend class defines one
exists(ov, st, path) ==
    IF "exists" \in ov THEN Mem_exists(st, path)
    ELSE Raise("AttributeError", st, << >>)

\* The derived operations (lines 266-296, 337-338)
get_bytes(ov, st, path) == get_content(ov, st, path)

put_bytes(ov, st, path, content) == put_content(ov, st, path, content)

get_unicode(ov, st, path) ==
    LET r == get_bytes(ov, st, path)
        d == decode_utf8(r.out.val[2])
    IN  IF r.out.kind = "raise" THEN r
        ELSE IF d.ok THEN Return(VText(d.text), r.store, r.puts)
        ELSE Raise("UnicodeDecodeError", r.store, r.puts)

put_unicode(ov, st, path, content) == put_bytes(ov, st, path, encode_utf8(content))

\* get_json without the call of json.loads
get_json_unparsed(ov, st, path) == get_unicode(ov, st, path)

get_json(ov, st, path) ==
    LET r == get_unicode(ov, st, path)
        j == json_loads(r.out.val[2])
    IN  IF r.out.kind = "raise" THEN r
        ELSE IF j.ok THEN Return(VJson(j.v), r.store, r.puts)
        ELSE Raise("ValueError", r.store, r.puts)

put_json(ov, st, path, content) == put_unicode(ov, st, path, json_dumps(content))

is_private(ov, st, namespace, repository) ==
    exists(ov, st, private_flag_path(Positional(<< namespace, repository >>)))

content_redirect_url(ov, st, path) == Return(VNone, st, << >>)

image_exists(ov, st, image) ==
    _exists(ov, st, _image_mark_path(Keyword([image |-> image])))

-----------------------------------------------------------------------------
(* SpecDriver: calls on one FileStorage object *)

ImageIds == { PyStr(<< "a", "b", "c", "1", "2", "3" >>) }
Repos == { << PyStr(<< "l", "i", "b" >>), PyStr(<< "a", "p", "p" >>) >> }

MarkPaths == { _image_mark_path(Positional(<< i >>)) : i \in ImageIds }
LayerPaths == { _image_layer_path(Positional(<< i >>)) : i \in ImageIds }
JsonPaths == { _image_json_path(Positional(<< i >>)) : i \in ImageIds }
FlagPaths == { private_flag_path(Positional(r)) : r \in Repos }
StorePaths == MarkPaths \cup LayerPaths \cup JsonPaths \cup FlagPaths

LAYERDATA == Cp(<< "L", "A", "Y", "E", "R", "D", "A", "T", "A" >>)

\* The byte strings a caller writes at a path
ContentsFor(p) ==
    IF p \in MarkPaths THEN { Cp(<< "t", "r", "u", "e" >>) }
    ELSE IF p \in LayerPaths THEN { << >>, LAYERDATA }
    ELSE IF p \in FlagPaths THEN { << >> }
    ELSE { }

\* The text a caller writes with put_unicode
Texts == { << 233, 97 >> }

\* The values a caller writes with put_json
JsonValues ==
    { JNull, JBool(TRUE), JInt(0), JInt(-42), JStr(<< >>), JStr(<< 97, 34, 92 >>),
      JStr(<< 233 >>), JList(<< >>), JList(<< JInt(1), JStr(<< 97 >>), JList(<< JNull >>) >>),
      JDict(<< >>), JDict(<< << << 105, 100 >>, JStr(Cp(<< "a", "b", "c", "1", "2", "3" >>)) >> >>) }

Constructed == [op |-> "__init__", args |-> << >>,
                out |-> Return(VNone, << >>, << >>).out, puts |-> << >>]

Do(op, args, r) ==
    /\ last' = [op |-> op, args |-> args, out |-> r.out, puts |-> r.puts]
    /\ store' = r.store
    /\ UNCHANGED overrides
    /\ UNCHANGED << encVars, pathVars, atomicVars, streamVars, fetchVars >>

GetContent == \E p \in StorePaths : Do("get_content", << p >>, get_content(overrides, store, p))
PutContent ==
    \E p \in StorePaths : \E b \in ContentsFor(p) :
        Do("put_content", << p, b >>, put_content(overrides, store, p, b))
StreamRead == \E p \in StorePaths : Do("stream_read", << p >>, stream_read(overrides, store, p))
StreamWrite == \E p \in StorePaths : Do("stream_write", << p >>, stream_write(overrides, store, p))
ListDirectory ==
    \E p \in StorePaths : Do("list_directory", << p >>, list_directory(overrides, store, p))
Remove == \E p \in StorePaths : Do("remove", << p >>, remove(overrides, store, p))
GetSize == \E p \in StorePaths : Do("get_size", << p >>, get_size(overrides, store, p))
Exists == \E p \in StorePaths : Do("exists", << p >>, exists(overrides, store, p))
GetBytes == \E p \in StorePaths : Do("get_bytes", << p >>, get_bytes(overrides, store, p))
PutBytes ==
    \E p \in StorePaths : \E b \in ContentsFor(p) :
        Do("put_bytes", << p, b >>, put_bytes(overrides, store, p, b))
GetUnicode == \E p \in StorePaths : Do("get_unicode", << p >>, get_unicode(overrides, store, p))
PutUnicode ==
    \E p \in JsonPaths : \E x \in Texts :
        Do("put_unicode", << p, x >>, put_unicode(overrides, store, p, x))
GetJson == \E p \in StorePaths : Do("get_json", << p >>, get_json(overrides, store, p))
PutJson ==
    \E p \in JsonPaths : \E v \in JsonValues :
        Do("put_json", << p, v >>, put_json(overrides, store, p, v))
IsPrivate ==
    \E r \in Repos : Do("is_private", r, is_private(overrides, store, r[1], r[2]))
ContentRedirectUrl ==
    \E p \in StorePaths :
        Do("content_redirect_url", << p >>, content_redirect_url(overrides, store, p))
ImageExists ==
    \E i \in ImageIds : Do("image_exists", << i >>, image_exists(overrides, store, i))

DriverNext ==
    \/ GetContent \/ PutContent \/ StreamRead \/ StreamWrite \/ ListDirectory
    \/ Remove \/ GetSize \/ Exists
    \/ GetBytes \/ PutBytes \/ GetUnicode \/ PutUnicode \/ GetJson \/ PutJson
    \/ IsPrivate \/ ContentRedirectUrl \/ ImageExists

-----------------------------------------------------------------------------
(* Claims about the FileStorage object *)

Returned_(v) == [kind |-> "return", err |-> "", val |-> v]
Raised_(e) == [kind |-> "raise", err |-> e, val |-> VNone]

MarkOf(i) == _image_mark_path(Positional(<< i >>))
LayerOf(i) == _image_layer_path(Positional(<< i >>))

\* C1 (as claimed): image_exists(id) answers false while the in-progress marker
\* of the image is stored (a stored layer changes nothing in that), and true
\* once the marker is gone and the layer is stored.
C1_ImageExistsOnceUnmarked ==
    \A i \in ImageIds :
        (last.op = "image_exists" /\ last.args = << i >>) =>
            /\ store[MarkOf(i)].present => last.out = Returned_(VBool(FALSE))
            /\ (~store[MarkOf(i)].present /\ store[LayerOf(i)].present)
                   => last.out = Returned_(VBool(TRUE))

\* A put_json call on a backend whose primitives store: one put_content call,
\* of the UTF-8 bytes of the serialized value at that path, and no other path
\* is written
PutJsonStep ==
    (overrides = MemOverrides /\ last'.op = "put_json") =>
        LET p == last'.args[1]
            b == encode_utf8(json_dumps(last'.args[2]))
        IN  /\ last'.puts = << [path |-> p, content |-> b] >>
            /\ store' = [store EXCEPT ![p] = Stored(b)]

\* get_json of stored content: the deserialized UTF-8 decoding of it
GetJsonStep ==
    (overrides = MemOverrides /\ last'.op = "get_json" /\ store[last'.args[1]].present) =>
        LET d == decode_utf8(store[last'.args[1]].data)
        IN  /\ store' = store
            /\ (d.ok /\ json_loads(d.text).ok)
                   => last'.out = Returned_(VJson(json_loads(d.text).v))
            /\ ~d.ok => last'.out = Raised_("UnicodeDecodeError")
            /\ (d.ok /\ ~json_loads(d.text).ok) => last'.out = Raised_("ValueError")

\* put_json(p, obj) followed by get_json(p)
RoundTripStep ==
    (overrides = MemOverrides /\ last.op = "put_json" /\ last'.op = "get_json"
        /\ last'.args[1] = last.args[1])
        => last'.out = Returned_(VJson(last.args[2]))

\* C8: on a backend whose put_content and get_content round-trip, put_json(p, obj)
\* makes exactly one put_content call, of the UTF-8 encoding of the serialized
\* obj at p, and writes no other path; get_json(p) returns the deserialization
\* of the decoded content; and get_json(p) right after put_json(p, obj) returns
\* a value equal to obj.
C8_JsonRoundTrip == [][PutJsonStep /\ GetJsonStep /\ RoundTripStep]_vars

\* get_json has returned a dict that an earlier put_json wrote
C8_Witness ==
    /\ overrides = MemOverrides
    /\ last.op = "get_json"
    /\ last.out = Returned_(VJson(JDict(<< << << 105, 100 >>,
                                JStr(Cp(<< "a", "b", "c", "1", "2", "3" >>)) >> >>)))

Primitives == { "get_content", "put_content", "stream_read", "stream_write",
                "list_directory", "remove", "get_size", "exists" }
Derived == { "get_json", "put_json", "get_unicode", "put_unicode", "get_bytes",
             "put_bytes", "image_exists", "is_private" }

\* C10 (as claimed): on a backend that overrides no primitive, every primitive
\* and every derived operation ends in NotImplementedError, content_redirect_url
\* returns None, and nothing is ever stored.
C10_BaseRaisesNotImplemented ==
    overrides = {} =>
        /\ last.op \in Primitives \cup Derived => last.out = Raised_("NotImplementedError")
        /\ last.op = "content_redirect_url" => last.out = Returned_(VNone)
        /\ \A p \in StorePaths : ~store[p].present

-----------------------------------------------------------------------------
(* SpecAtomic: registry.py.  A POST handler suspends in payload.read() until *)
(* the whole body has arrived; a GET handler runs without suspending.  The   *)
(* POSTs in flight are a bag of records: key, the body the client sends, and *)
(* the bytes of it that have arrived.                                        *)

AKeys == { "k1", "k2" }
ABodies == { << >>, << 1 >>, << 2 >>, << 1, 2 >> }

NoResponse == [method |-> "none", key |-> "", status |-> 0, body |-> << >>]
Response(m, k, s, b) == [method |-> m, key |-> k, status |-> s, body |-> b]

One(r) == SetToBag({ r })

\* payload.readany(): returns as soon as some bytes, or the end of the body, arrived
ReadAnyReady(r) == r.buf # << >> \/ r.buf = r.body

\* payload.read() (line 23): returns once the end of the body has arrived
ReadReady(r) == r.buf = r.body

\* A POST arrives: post_atomic runs up to its yield from
PostArrive ==
    \E k \in AKeys : \E b \in ABodies :
        /\ BagCardinality(areq) < MaxAReq
        /\ areq' = areq (+) One([key |-> k, body |-> b, buf |-> << >>])
        /\ UNCHANGED << STORAGE, aresp, lastBody >>
        /\ UNCHANGED << encVars, pathVars, driverVars, streamVars, fetchVars >>

\* The transport feeds the next bytes of a body to the request's payload
PayloadFeed ==
    \E r \in BagToSet(areq) : \E n \in 1..(Len(r.body) - Len(r.buf)) :
        /\ areq' = (areq (-) One(r))
                       (+) One([r EXCEPT !.buf = SubSeq(r.body, 1, Len(r.buf) + n)])
        /\ UNCHANGED << STORAGE, aresp, lastBody >>
        /\ UNCHANGED << encVars, pathVars, driverVars, streamVars, fetchVars >>

\* post_atomic resumes with the data read, stores it and answers 200
post_atomic ==
    \E r \in BagToSet(areq) :
        /\ ReadReady(r)
        /\ STORAGE' = [STORAGE EXCEPT ![r.key] = Stored(r.buf)]
        /\ lastBody' = [lastBody EXCEPT ![r.key] = Stored(r.body)]
        /\ areq' = areq (-) One(r)
        /\ aresp' = Response("POST", r.key, 200, << >>)
        /\ UNCHANGED << encVars, pathVars, driverVars, streamVars, fetchVars >>

\* get_atomic: 404 on KeyError, else 200 with the stored value
get_atomic ==
    \E k \in AKeys :
        /\ aresp' = IF STORAGE[k].present THEN Response("GET", k, 200, STORAGE[k].data)
                    ELSE Response("GET", k, 404, << >>)
        /\ UNCHANGED << STORAGE, areq, lastBody >>
        /\ UNCHANGED << encVars, pathVars, driverVars, streamVars, fetchVars >>

AtomicNext == PostArrive \/ PayloadFeed \/ post_atomic \/ get_atomic

\* What is stored under a key is the complete body of the POST to it that stored
\* last, and nothing before any POST to it has stored; and the last response,
\* if a GET's, is the answer for exactly that
AtomicState ==
    /\ \A k \in AKeys : STORAGE[k] = lastBody[k]
    /\ aresp.method = "GET" =>
          aresp = IF lastBody[aresp.key].present
                  THEN Response("GET", aresp.key, 200, lastBody[aresp.key].data)
                  ELSE Response("GET", aresp.key, 404, << >>)

\* Only a POST to k that completes changes what is stored under k
AtomicFrame ==
    \A k \in AKeys :
        STORAGE'[k] # STORAGE[k] => aresp' = Response("POST", k, 200, << >>)

\* C6: in every interleaving of POSTs and GETs, a GET for k answers 404 when no
\* POST to k has stored yet and otherwise 200 with the complete body (an empty
\* one included) of the POST to k that stored last; a POST to k changes no
\* other key and a GET changes nothing.
C6_AtomicGet == []AtomicState /\ [][AtomicFrame]_vars

\* A GET was answered 200 with a stored body while another POST to the same key
\* has part of a different body read
C6_Witness ==
    /\ aresp.method = "GET" /\ aresp.status = 200 /\ aresp.body # << >>
    /\ \E r \in BagToSet(areq) :
          r.key = aresp.key /\ r.buf # << >> /\ r.buf # r.body /\ r.body # aresp.body

-----------------------------------------------------------------------------
(* SpecStream: streaming-storage.py.  A handler runs from one yield from to   *)
(* the next without interruption.  post_streaming opens /tmp/<key> for        *)
(* writing, which creates or truncates the file, and then suspends in         *)
(* readany(); each chunk goes to the file object, whose buffer reaches the     *)
(* file when it fills or when the file is closed; every open file has its own *)
(* offset.  get_streaming opens the file, reads to its end, and suspends in   *)
(* response.write() while it has data to send.                                *)
(*                                                                           *)
(* A request in flight: method, key, body (what the client of a POST sends),  *)
(* pos (bytes of the body consumed), wbuf (bytes written but not flushed),    *)
(* out (bytes a GET has streamed), reads (the length of what each read        *)
(* returned so far), and history: alone (no other request on the key has been *)
(* in flight with it; for a GET, no POST on the key), rivals (for a POST, the *)
(* body of the one other POST on the key that has been in flight with it) and saw *)
(* (for a GET, lastPosted of its key at its open).  A key names its own file and no *)
(* handler touches another, so the model follows the requests on one key.     *)

SKeys == { "k1" }
SBodies == { << >>, << 1, 1 >>, << 2 >> }

NoPost == [ok |-> FALSE, body |-> << >>]

NoSResponse ==
    [method |-> "none", key |-> "", status |-> 0, body |-> << >>, reads |-> << >>,
     clean |-> FALSE, expect |-> << >>]

Zeros(n) == [i \in 1..n |-> 0]

\* write(2) of w at offset off: a write past the end leaves a hole of zero bytes
WriteAt(data, off, w) ==
    LET padded == IF off > Len(data) THEN data \o Zeros(off - Len(data)) ELSE data
    IN  SubSeq(padded, 1, off) \o w \o SubSeq(padded, off + Len(w) + 1, Len(padded))

\* The offset of a POST's file descriptor: what it has consumed less what it buffers
FileOffset(r) == r.pos - Len(r.wbuf)

\* The file as a POST that never flushes its buffer leaves it
Unflushed(data, r) == data

\* The file after a POST's buffer is flushed, as the with block's close does (line 41)
Flushed(data, r) ==
    IF r.wbuf = << >> THEN data ELSE WriteAt(data, FileOffset(r), r.wbuf)

\* f.read() at offset off (line 26): everything up to the end of the file
ReadToEnd(data, off) == IF off >= Len(data) THEN << >> ELSE SubSeq(data, off + 1, Len(data))

OnKey(B, k) == { r \in BagToSet(B) : r.key = k }

Posts(B, k) == { r \in OnKey(B, k) : r.method = "POST" }

\* The rivals of a POST as the history keeps them: none, the body of the only
\* one, or two empty entries once there has been more than one
OneRival(s) == IF Len(s) <= 1 THEN s ELSE << << >>, << >> >>

\* The bodies of the requests of S, each as often as it is in flight
RECURSIVE BodiesOf(_, _)
BodiesOf(B, S) ==
    IF S = {} THEN << >>
    ELSE LET r == CHOOSE x \in S : TRUE
         IN  [i \in 1..B[r] |-> r.body] \o BodiesOf(B, S \ { r })

\* The requests in flight as a request with method m and body b arrives on key
\* k: a POST is no longer alone, and a GET is not once a POST arrives; a POST
\* has an arriving POST as its rival
RECURSIVE DisturbFrom(_, _, _, _, _)
DisturbFrom(B, S, m, k, b) ==
    IF S = {} THEN EmptyBag
    ELSE LET r == CHOOSE x \in S : TRUE
             q == IF r.key = k /\ (m = "POST" \/ r.method = "POST")
                  THEN [r EXCEPT !.alone = FALSE,
                                 !.rivals = IF m = "POST" /\ r.method = "POST"
                                            THEN OneRival(Append(r.rivals, b))
                                            ELSE r.rivals]
                  ELSE r
         IN  (q :> B[r]) (+) DisturbFrom(B, S \ { r }, m, k, b)
Disturb(B, m, k, b) == DisturbFrom(B, BagToSet(B), m, k, b)

AllPositive(s) == \A i \in 1..Len(s) : s[i] > 0

\* post_streaming from its start to its first yield from (lines 39-48)
post_open ==
    \E k \in SKeys : \E b \in SBodies :
        /\ BagCardinality(sreq) < MaxSReq
        /\ files' = [files EXCEPT ![k] = Stored(<< >>)]
        /\ sreq' = Disturb(sreq, "POST", k, b)
                      (+) One([method |-> "POST", key |-> k, body |-> b, pos |-> 0,
                               wbuf |-> << >>, out |-> << >>, reads |-> << >>,
                               alone |-> OnKey(sreq, k) = {},
                               rivals |-> OneRival(BodiesOf(sreq, Posts(sreq, k))),
                               saw |-> NoPost])
        /\ lastPosted' = [lastPosted EXCEPT ![k] = NoPost]
        /\ UNCHANGED sresp
        /\ UNCHANGED << encVars, pathVars, driverVars, atomicVars, fetchVars >>

\* readany() returns a chunk: it is written to the file object, which keeps it
\* in its buffer or flushes, and the loop suspends in readany() again (49-52, 48)
post_chunk ==
    \E r \in BagToSet(sreq) : \E n \in 1..(Len(r.body) - r.pos) : \E flush \in BOOLEAN :
        LET w == [r EXCEPT !.pos = r.pos + n,
                           !.wbuf = r.wbuf \o SubSeq(r.body, r.pos + 1, r.pos + n),
                           !.reads = Append(r.reads, n)]
        IN  /\ r.method = "POST"
            /\ files' = IF flush THEN [files EXCEPT ![r.key] = Stored(Flushed(files[r.key].data, w))]
                        ELSE files
            /\ sreq' = (sreq (-) One(r)) (+) One(IF flush THEN [w EXCEPT !.wbuf = << >>] ELSE w)
            /\ UNCHANGED << sresp, lastPosted >>
            /\ UNCHANGED << encVars, pathVars, driverVars, atomicVars, fetchVars >>

\* readany() returns nothing: the loop ends, the file is closed, 200 (53-56)
post_close ==
    \E r \in BagToSet(sreq) :
        /\ r.method = "POST" /\ r.pos = Len(r.body)
        /\ files' = [files EXCEPT ![r.key] = Stored(Flushed(files[r.key].data, r))]
        /\ sreq' = sreq (-) One(r)
        /\ sresp' = [method |-> "POST", key |-> r.key, status |-> 200, body |-> << >>,
                     reads |-> Append(r.reads, 0), clean |-> r.alone, expect |-> r.body]
        /\ lastPosted' = [lastPosted EXCEPT ![r.key] = [ok |-> r.alone, body |-> r.body]]
        /\ UNCHANGED << encVars, pathVars, driverVars, atomicVars, fetchVars >>

\* get_streaming on a key with no file: open raises, the server answers 500 (line 18)
get_missing ==
    \E k \in SKeys :
        /\ ~files[k].present
        /\ sresp' = [method |-> "GET", key |-> k, status |-> 500, body |-> << >>,
                     reads |-> << >>, clean |-> FALSE, expect |-> << >>]
        /\ sreq' = Disturb(sreq, "GET", k, << >>)
        /\ UNCHANGED << files, lastPosted >>
        /\ UNCHANGED << encVars, pathVars, driverVars, atomicVars, fetchVars >>

\* get_streaming from its start: the first read finds the file empty, the loop
\* ends and the response is returned (lines 17-34)
get_open_empty ==
    \E k \in SKeys :
        /\ files[k].present /\ ReadToEnd(files[k].data, 0) = << >>
        /\ sresp' = [method |-> "GET", key |-> k, status |-> 200, body |-> << >>,
                     reads |-> << 0 >>,
                     clean |-> Posts(sreq, k) = {} /\ lastPosted[k].ok,
                     expect |-> lastPosted[k].body]
        /\ sreq' = Disturb(sreq, "GET", k, << >>)
        /\ UNCHANGED << files, lastPosted >>
        /\ UNCHANGED << encVars, pathVars, driverVars, atomicVars, fetchVars >>

\* get_streaming from its start: the first read returns data, which the handler
\* sends, suspending in response.write (lines 17-30)
get_open ==
    \E k \in SKeys :
        LET data == ReadToEnd(files[k].data, 0)
        IN  /\ files[k].present /\ data # << >>
            /\ BagCardinality(sreq) < MaxSReq
            /\ sreq' = Disturb(sreq, "GET", k, << >>)
                          (+) One([method |-> "GET", key |-> k, body |-> << >>, pos |-> 0,
                                   wbuf |-> << >>, out |-> data, reads |-> << Len(data) >>,
                                   alone |-> Posts(sreq, k) = {}, rivals |-> << >>,
                                   saw |-> lastPosted[k]])
            /\ UNCHANGED << files, sresp, lastPosted >>
            /\ UNCHANGED << encVars, pathVars, driverVars, atomicVars, fetchVars >>

\* The next read of a GET returns more data, which is sent (lines 26-30)
get_more ==
    \E r \in BagToSet(sreq) :
        LET data == ReadToEnd(files[r.key].data, Len(r.out))
        IN  /\ r.method = "GET" /\ data # << >>
            /\ sreq' = (sreq (-) One(r))
                          (+) One([r EXCEPT !.out = r.out \o data,
                                            !.reads = Append(r.reads, Len(data))])
            /\ UNCHANGED << files, sresp, lastPosted >>
            /\ UNCHANGED << encVars, pathVars, driverVars, atomicVars, fetchVars >>

\* The next read of a GET returns nothing: the loop ends, the response is
\* returned (lines 26, 31-34)
get_done ==
    \E r \in BagToSet(sreq) :
        /\ r.method = "GET" /\ ReadToEnd(files[r.key].data, Len(r.out)) = << >>
        /\ sreq' = sreq (-) One(r)
        /\ sresp' = [method |-> "GET", key |-> r.key, status |-> 200, body |-> r.out,
                     reads |-> Append(r.reads, 0),
                     clean |-> r.alone /\ r.saw.ok, expect |-> r.saw.body]
        /\ UNCHANGED << files, lastPosted >>
        /\ UNCHANGED << encVars, pathVars, driverVars, atomicVars, fetchVars >>

StreamNext ==
    \/ post_open \/ post_chunk \/ post_close
    \/ get_missing \/ get_open_empty \/ get_open \/ get_more \/ get_done

(* Claims about the streaming store *)

\* A loop has ended: every read but its last returned data, and the last none
EndedAtFirstEmptyRead(reads) ==
    /\ reads # << >>
    /\ reads[Len(reads)] = 0
    /\ AllPositive(SubSeq(reads, 1, Len(reads) - 1))

\* C7: after a POST streamed body d to key k in any sequence of non-empty
\* chunks and completed with no other request on k overlapping it, the file of
\* k holds exactly d, and a GET for k that no POST overlaps answers 200 with
\* the chunks it streams concatenating to d; the write loop and the read loop
\* run while their reads return data and end at the first empty read.
C7_StreamRoundTrip ==
    /\ \A k \in SKeys : lastPosted[k].ok => files[k] = Stored(lastPosted[k].body)
    /\ (sresp.method = "GET" /\ sresp.clean) =>
          sresp.status = 200 /\ sresp.body = sresp.expect
    /\ sresp.status = 200 => EndedAtFirstEmptyRead(sresp.reads)
    /\ (sresp.method = "POST" /\ sresp.status = 200) =>
          Len(sresp.reads) <= Len(sresp.expect) + 1
    /\ \A r \in BagToSet(sreq) : AllPositive(r.reads)

\* A GET that followed a completed, undisturbed POST of a two-byte body streamed
\* that body back in one chunk and ended at its second read
C7_Witness ==
    /\ sresp.method = "GET" /\ sresp.clean /\ sresp.status = 200
    /\ sresp.body = << 1, 1 >> /\ sresp.reads = << 2, 0 >>

\* C11: when two POST requests stream different bodies to the same key and
\* their chunk writes interleave in any order, the file of that key, once both
\* requests have completed, holds exactly the complete body of one of the two,
\* never a mixture of bytes from both.  Stated of the step in which the second
\* of the two closes its file: r is the POST that closes, its only rival is the
\* other one, and no POST on the key remains in flight.
TwoWritersOneBody ==
    \A r \in BagToSet(sreq) :
        (/\ r.method = "POST" /\ sreq' = sreq (-) One(r)
         /\ Posts(sreq', r.key) = {}
         /\ Len(r.rivals) = 1 /\ r.rivals[1] # r.body)
            => files'[r.key] \in { Stored(r.body), Stored(r.rivals[1]) }
C11_LastWriteWins == [][TwoWritersOneBody]_vars

-----------------------------------------------------------------------------
(* SpecFetch: fetch and available (driver.py, 353-374).  The environment is   *)
(* what is installed under docker_registry.drivers: for each module name,     *)
(* nothing ("absent"), a module that imports and defines Storage ("backend"), *)
(* a module whose import raises ImportError, as one whose own dependency is    *)
(* missing does ("broken"), or a module that imports and defines no Storage   *)
(* ("nostorage").  pkgutil.iter_modules lists a module by its file, imported  *)
(* or not.                                                                    *)

ModuleNames == { "file", "s3", "gcs" }
FetchNames == ModuleNames \cup { "nonexistent-backend" }
ModuleKinds == { "absent", "backend", "broken", "nostorage" }
Unset == "<unset>"

KindOf(env, name) == IF name \in DOMAIN env THEN env[name] ELSE "absent"

\* available(): the names pkgutil.iter_modules finds (372-374)
available(env) == { m \in DOMAIN env : env[m] # "absent" }

\* The class docker_registry.drivers.<name>.Storage
StorageOf(name) == [module |-> name, class |-> "Storage"]

FetchReturn(v, sch) ==
    [out |-> [kind |-> "return", err |-> "", val |-> v, listed |-> {}], scheme |-> sch]
FetchRaise(e, listed, sch) ==
    [out |-> [kind |-> "raise", err |-> e, val |-> << >>, listed |-> listed], scheme |-> sch]

\* fetch with an error message that leaves out what is available
fetch_unlisted(env, sch, name) ==
    CASE KindOf(env, name) \in { "absent", "broken" } ->
            FetchRaise("NotImplementedError", {}, sch)
      [] KindOf(env, name) = "nostorage" -> FetchRaise("AttributeError", {}, sch)
      [] OTHER -> FetchReturn(StorageOf(name), [sch EXCEPT ![name] = name])

\* fetch(name) (353-369): sch is the scheme attribute of each module's Storage
fetch(env, sch, name) ==
    CASE KindOf(env, name) \in { "absent", "broken" } ->
            FetchRaise("NotImplementedError", available(env), sch)
      [] KindOf(env, name) = "nostorage" -> FetchRaise("AttributeError", {}, sch)
      [] OTHER -> FetchReturn(StorageOf(name), [sch EXCEPT ![name] = name])

NoFetch == [op |-> "none", name |-> "", out |-> FetchReturn(<< >>, << >>).out]

FetchInit ==
    /\ installed \in [ModuleNames -> ModuleKinds]
    /\ scheme = [m \in ModuleNames |-> Unset]
    /\ fres = NoFetch

Fetch ==
    \E name \in FetchNames :
        LET r == fetch(installed, scheme, name)
        IN  /\ fres' = [op |-> "fetch", name |-> name, out |-> r.out]
            /\ scheme' = r.scheme
            /\ UNCHANGED installed
            /\ UNCHANGED << encVars, pathVars, driverVars, atomicVars, streamVars >>

Available ==
    /\ fres' = [op |-> "available", name |-> "",
                out |-> FetchReturn(available(installed), scheme).out]
    /\ UNCHANGED << installed, scheme >>
    /\ UNCHANGED << encVars, pathVars, driverVars, atomicVars, streamVars >>

FetchNext == Fetch \/ Available

-----------------------------------------------------------------------------
(* Claims about fetch *)

Imports(env, name) == KindOf(env, name) \in { "backend", "nostorage" }

NotImplementedListing(env) ==
    FetchRaise("NotImplementedError", available(env), << >>).out

\* The last operation was fetch(name) and it answered as the claim says it
\* does for a name that is not available
FailedAsClaimed == fres.out = NotImplementedListing(installed)

\* ... and as the claim says it does for a name that is
ReturnedAsClaimed ==
    /\ fres.out = FetchReturn(StorageOf(fres.name), << >>).out
    /\ scheme[fres.name] = fres.name

\* A step that raises leaves every scheme as it was
FailureBindsNothing == fres'.out.kind = "raise" => scheme' = scheme

C9_FetchState ==
    /\ fres.op = "fetch" =>
          /\ ~Imports(installed, fres.name) => FailedAsClaimed
          /\ KindOf(installed, fres.name) = "backend" => ReturnedAsClaimed
          /\ KindOf(installed, fres.name) = "nostorage" =>
                fres.out = FetchRaise("AttributeError", {}, << >>).out
    /\ \A m \in ModuleNames :
          scheme[m] # Unset => scheme[m] = m /\ KindOf(installed, m) = "backend"

-----------------------------------------------------------------------------
(* Specifications *)

DriverIdle == overrides = {} /\ store = [p \in StorePaths |-> AbsentEntry] /\ last = Constructed
AtomicIdle ==
    /\ STORAGE = [k \in AKeys |-> AbsentEntry] /\ areq = EmptyBag /\ aresp = NoResponse
    /\ lastBody = [k \in AKeys |-> AbsentEntry]
StreamIdle ==
    /\ files = [k \in SKeys |-> AbsentEntry] /\ sreq = EmptyBag /\ sresp = NoSResponse
    /\ lastPosted = [k \in SKeys |-> NoPost]
FetchIdle ==
    /\ installed = [m \in ModuleNames |-> "absent"]
    /\ scheme = [m \in ModuleNames |-> Unset]
    /\ fres = NoFetch

InitEnc == EncInit /\ PathIdle /\ DriverIdle /\ AtomicIdle /\ StreamIdle /\ FetchIdle
SpecEnc == InitEnc /\ [][EncNext]_vars

InitPath == PathInit /\ EncIdle /\ DriverIdle /\ AtomicIdle /\ StreamIdle /\ FetchIdle
SpecPath == InitPath /\ [][PathNext]_vars

InitDriver ==
    /\ overrides \in { {}, MemOverrides }
    /\ store = [p \in StorePaths |-> AbsentEntry]
    /\ last = Constructed
    /\ EncIdle /\ PathIdle /\ AtomicIdle /\ StreamIdle /\ FetchIdle
SpecDriver == InitDriver /\ [][DriverNext]_vars

InitAtomic ==
    /\ STORAGE = [k \in AKeys |-> AbsentEntry]
    /\ areq = EmptyBag
    /\ aresp = NoResponse
    /\ lastBody = [k \in AKeys |-> AbsentEntry]
    /\ EncIdle /\ PathIdle /\ DriverIdle /\ StreamIdle /\ FetchIdle
SpecAtomic == InitAtomic /\ [][AtomicNext]_vars

InitStream == StreamIdle /\ EncIdle /\ PathIdle /\ DriverIdle /\ AtomicIdle /\ FetchIdle
SpecStream == InitStream /\ [][StreamNext]_vars

InitFetch == FetchInit /\ EncIdle /\ PathIdle /\ DriverIdle /\ AtomicIdle /\ StreamIdle
SpecFetch == InitFetch /\ [][FetchNext]_vars

=============================================================================
